---- MODULE Spec2Model ----
(***************************************************************************)
(* Asynchronous task pipeline of companion-v1: dispatch endpoints, the    *)
(* Celery worker with its prerun / postrun / failure signal hooks, the    *)
(* TaskMetadata store, the GET /tasks/{task_id} reconciliation, the       *)
(* broadcast channels and the two WebSocket gateways.                     *)
(*                                                                         *)
(* One task id is followed from dispatch to its last execution.  Celery   *)
(* itself is the environment: one execution of a message runs             *)
(*   task_prerun receivers -> task body -> (task_failure receivers when   *)
(*   the body raised for good) -> task_postrun receivers,                 *)
(* task_postrun being sent for every outcome, and Task.retry() re-sends   *)
(* the message while request.retries < max_retries and re-raises the      *)
(* original exception otherwise.                                          *)
(***************************************************************************)
EXTENDS Integers, Sequences, FiniteSets, TLC

\* ---------------------------------------------------------------- bounds
MaxChunks == 2     \* fragments the generative endpoint produces
MaxDay == 3        \* days the clock of the sweep runs through
MaxSweeps == 1     \* runs of the sweep that are followed
MaxClock == 350    \* seconds the clock of the rate limiter runs through
MaxRequests == 7   \* requests to /auth/login that are followed

\* ------------------------------------------------------ program constants
MAX_RETRIES == 3   \* @shared_task(bind=True, max_retries=3)
RETRY_COUNTDOWN == 60   \* self.retry(exc=e, countdown=60)
RETRY_BACKOFF_MAX == 600   \* OptimizedTask.retry_backoff_max
LOGIN_LIMIT == 5   \* "/auth/login": (5, 300)
LOGIN_WINDOW == 300
NoTime == 0        \* a NULL started_at / completed_at column

NULL == "NULL"     \* Python None in a string-valued place
NoRow == [status |-> "absent"]   \* query(...).first() returned None
NoCall == [status |-> "nocall"]  \* no update_task_status call in progress

Users == {"u1", "u2"}
Owner == "u1"      \* the user who dispatches
TaskId == "t1"     \* the id Celery gave the dispatched task
NoteId == "n1"     \* the note of Owner
NoteIds == {"n1", "n2"}   \* note ids a request may name; n2 does not exist
SweepIds == {"t1", "t2"}   \* task ids of the table the sweep works on

ERR_NOTE == "Note not found"
ERR_OLLAMA == "Ollama service unavailable"
ERR_LIMIT == "SoftTimeLimitExceeded()"
ERR_FRAGMENT == "[Error: timeout]"
RETRY_TEXT == "Retry in 60s"

VARIABLES
  row,        \* the task_metadata row of TaskId, or NoRow
  now,        \* the clock datetime.utcnow() reads
  queue,      \* messages of TaskId waiting in the Celery queue
  backend,    \* Celery result backend entry of TaskId
  note,       \* the note the task works on
  dpc, kind,  \* dispatch endpoint: position, and which endpoint it is
  wpc,        \* worker: position inside the execution of one message
  request,    \* worker: the message being executed
  wret,       \* worker: state and retval of the execution
  wupd,       \* worker: update_task_status call between read and commit
  full_text, idx, adapter,  \* streaming handler locals / adapter position
  ppc, ploaded, pinfo, presp,  \* GET /tasks/{task_id} request
  published,  \* every message published so far, per channel, in order
  spc, sinbox, ssent, slate,  \* a client of /ws/stream/{task_id}
  tpc, tinbox, tsent, tlate,  \* a client of /ws/task_status/{task_id}
  executions, \* number of executions of the task body started
  hookNoRow,  \* a signal hook found no row for its task_id
  dcaller, dnote,  \* dispatch endpoint: the caller and the note id it names
  enqueued,   \* number of messages the dispatch endpoint has put on the queue
  puser,      \* GET /tasks/{task_id}: the caller of the last request
  s2pc, s2inbox, s2sent,  \* a second client of /ws/stream/{task_id}
  cpc, cframes, ctext, csaved, cgone,  \* a chunked response and its client
  xpc, xuser, deleted, lateCommit,  \* DELETE /tasks/{task_id}
  tasks,      \* the task_metadata table the sweep works on, by task id
  utcnow,     \* the day datetime.utcnow() falls on
  sweep,      \* the last run of cleanup_old_tasks
  storage,    \* RateLimiter.storage: "redis" or "memory", once constructed
  zset,       \* the members of the Redis sorted set of the client's key
  memory,     \* RateLimiter.memory[key]
  clock,      \* time.time(), in seconds
  admitted,   \* the times at which a request was passed to call_next
  rresp,      \* the status the middleware gave the last request
  suser,      \* the user the client of /ws/stream authenticated as
  tuser       \* the user the client of /ws/task_status authenticated as

vars == <<row, now, queue, backend, note, dpc, kind, wpc, request, wret, wupd,
          full_text, idx, adapter, ppc, ploaded, pinfo, presp,
          published, spc, sinbox, ssent, slate, tpc, tinbox, tsent, tlate,
          executions, hookNoRow, dcaller, dnote, enqueued, puser,
          s2pc, s2inbox, s2sent, cpc, cframes, ctext, csaved, cgone,
          xpc, xuser, deleted, lateCommit, tasks, utcnow, sweep,
          storage, zset, memory, clock, admitted, rresp, suser, tuser>>

streamClientVars == <<spc, ssent, slate>>
stream2ClientVars == <<s2pc, s2sent>>
statusClientVars == <<tpc, tsent, tlate>>
inboxes == <<sinbox, s2inbox, tinbox>>
gatewayVars == <<streamClientVars, stream2ClientVars, statusClientVars,
                 inboxes>>
workerVars == <<wpc, request, wret, wupd>>
streamVars == <<full_text, idx, adapter>>
pollVars == <<ppc, ploaded, pinfo, presp, puser>>
dispatchVars == <<dpc, kind, dcaller, dnote, enqueued>>
chunkedVars == <<cpc, cframes, ctext, csaved, cgone>>
cancelVars == <<xpc, xuser, deleted, lateCommit>>
sweepVars == <<tasks, utcnow, sweep>>
rateVars == <<storage, zset, memory, clock, admitted, rresp>>
wsUserVars == <<suser, tuser>>
sideVars == <<sweepVars, rateVars, wsUserVars>>
edgeVars == <<chunkedVars, cancelVars, sideVars>>

\* ------------------------------------------------------------ TaskService

\* TaskService.create_task: the row as inserted, status "pending"
create_task(user_id, task_type, t) ==
  [user_id |-> user_id, task_type |-> task_type, status |-> "pending",
   result |-> NULL, error |-> NULL,
   created_at |-> t, started_at |-> NoTime, completed_at |-> NoTime]

\* (the lookup without its TaskMetadata.user_id == user_id filter)
get_task_any_user(db, user_id) == db

\* TaskService.get_task(task_id, user_id): the row, filtered by user when given
get_task(db, user_id) ==
  IF db = NoRow THEN NoRow
  ELSE IF user_id # NULL /\ db.user_id # user_id THEN NoRow
  ELSE db

\* TaskService.update_task_status, the in-memory part: the loaded object after
\* the assignments of the call, t being the value utcnow() returns
update_task_status(task, status, result, error, t) ==
  [task EXCEPT
     !.status = status,
     !.started_at = IF status = "running" /\ task.started_at = NoTime
                    THEN t ELSE @,
     !.completed_at = IF status \in {"success", "failed"}
                         /\ task.completed_at = NoTime
                      THEN t ELSE @,
     !.result = IF result # NULL THEN result ELSE @,
     !.error = IF error # NULL THEN error ELSE @]

\* (a commit that writes the object back when its row is gone)
commit_upsert(db, loaded, modified) ==
  IF db = NoRow THEN modified
  ELSE [c \in DOMAIN db |->
          IF modified[c] # loaded[c] THEN modified[c] ELSE db[c]]

\* db.commit() of a modified object: the UPDATE carries the columns whose
\* value differs from the loaded one; the others keep what the table holds
commit(db, loaded, modified) ==
  IF db = NoRow THEN NoRow
  ELSE [c \in DOMAIN db |->
          IF modified[c] # loaded[c] THEN modified[c] ELSE db[c]]

\* an update_task_status call that has read the row and not committed yet:
\* the object get_task returned, and the arguments of the call
Call(loaded, status, result, error) ==
  [status |-> "call", loaded |-> loaded,
   args |-> [status |-> status, result |-> result, error |-> error]]

\* the row after the call's assignments and db.commit(), at clock value t
Committed(db, call, t) ==
  commit(db, call.loaded,
         update_task_status(call.loaded, call.args.status, call.args.result,
                            call.args.error, t))

\* ----------------------------------------------------------- celery_utils

\* get_task_info: what AsyncResult reports for the task id
get_task_info(b) ==
  [task_id |-> TaskId, state |-> b.state, status |-> b.state,
   result |-> IF b.state = "SUCCESS" THEN b.result ELSE NULL,
   error |-> IF b.state = "FAILURE" THEN b.result ELSE NULL]

\* str.lower() on the Celery state names
lower(s) ==
  CASE s = "PENDING" -> "pending"
    [] s = "STARTED" -> "started"
    [] s = "RETRY" -> "retry"
    [] s = "FAILURE" -> "failure"
    [] s = "SUCCESS" -> "success"
    [] s = "REVOKED" -> "revoked"
    [] OTHER -> s

\* ------------------------------------------------------------------- Init

Init ==
  /\ row = NoRow
  /\ now = 1
  /\ queue = <<>>
  /\ backend = [state |-> "PENDING", result |-> NULL]
  /\ note = [ai_enhanced_content |-> NULL, ai_summary |-> NULL]
  /\ dpc = "start" /\ kind = NULL
  /\ wpc = "idle"
  /\ request = [retries |-> 0, countdown |-> 0]
  /\ wret = [state |-> NULL, retval |-> NULL]
  /\ wupd = NoCall
  /\ full_text = "" /\ idx = 0 /\ adapter = "closed"
  /\ ppc = "idle" /\ ploaded = NoRow
  /\ pinfo = get_task_info([state |-> "PENDING", result |-> NULL])
  /\ presp = NULL
  /\ published = <<>>
  /\ spc = "none" /\ sinbox = <<>> /\ ssent = <<>> /\ slate = FALSE
  /\ tpc = "none" /\ tinbox = <<>> /\ tsent = <<>> /\ tlate = FALSE
  /\ executions = 0
  /\ hookNoRow = FALSE
  /\ dcaller = NULL /\ dnote = NULL /\ enqueued = 0
  /\ puser = NULL
  /\ s2pc = "none" /\ s2inbox = <<>> /\ s2sent = <<>>
  /\ cpc = "none" /\ cframes = <<>> /\ ctext = "" /\ csaved = FALSE
  /\ cgone = FALSE
  /\ xpc = "idle" /\ xuser = NULL /\ deleted = FALSE /\ lateCommit = FALSE
  /\ tasks = [i \in SweepIds |-> NoRow]
  /\ utcnow = 1
  /\ sweep = [runs |-> 0, days |-> 0, cutoff |-> 0, deleted_count |-> 0]
  /\ storage = NULL
  /\ zset = {} /\ memory = <<>>
  /\ clock = 0
  /\ admitted = <<>>
  /\ rresp = NULL
  /\ suser = NULL /\ tuser = NULL

\* ------------------------------------------------------------ broadcast

StreamChannel == "stream:" \o TaskId

\* (the message is put in front of the waiting ones)
Deliver_front(inbox, attached, message) ==
  IF attached THEN <<message>> \o inbox ELSE inbox

\* (a subscriber that has not consumed the previous message misses this one)
Deliver_if_idle(inbox, attached, message) ==
  IF attached /\ inbox = <<>> THEN Append(inbox, message) ELSE inbox

\* the queue of one subscriber at a publish: the message is put at its end
\* when the subscriber is attached to the channel
Deliver(inbox, attached, message) ==
  IF attached THEN Append(inbox, message) ELSE inbox

\* broadcast.publish(channel, message): the message reaches the queue of
\* every subscriber the channel has at that moment, and nobody else
\* (a subscription that begins only with the relay loop)
status_subscribed_at_relay(pc) == pc = "relay"

\* ws_task_status: "async with broadcast.subscribe(channel=task_id)" encloses
\* the snapshot and the relay loop, so the client is subscribed during both
status_subscribed(pc) == pc \in {"subscribed", "relay"}

Publish(channel, message) ==
  /\ published' = Append(published,
                    [channel |-> channel, message |-> message,
                     attempt |-> request.retries])
  /\ sinbox' = Deliver(sinbox, channel = StreamChannel /\ spc = "relay",
                       message)
  /\ s2inbox' = Deliver(s2inbox, channel = StreamChannel /\ s2pc = "relay",
                        message)
  /\ tinbox' = Deliver(tinbox, channel = TaskId /\ status_subscribed(tpc),
                       message)

\* --------------------------------------------------------------- dispatch

\* the endpoints that dispatch a task, by the task_type they stand for
TrackedKinds == {"enhance", "summarize_stream"}
ChunkedKinds == {"enhance_stream", "summary_stream"}
Kinds == TrackedKinds \cup ChunkedKinds \cup {"quiz"}

\* (the lookup without its Note.user_id == user_id filter)
note_query_any_user(db_note, note_id, user_id) ==
  IF note_id = NoteId THEN db_note ELSE NoRow

\* db.query(Note).filter(Note.id == note_id, Note.user_id == user_id).first()
\* over a notes table that holds the one note NoteId, owned by Owner
note_query(db_note, note_id, user_id) ==
  IF note_id = NoteId /\ user_id = Owner THEN db_note ELSE NoRow

\* a dispatch endpoint up to task.delay(...): the note lookup with
\* HTTPException(404) when it finds nothing, else the message is put on the
\* queue; the endpoints of TrackedKinds go on to create_task, the others
\* (generate_quiz, the chunked endpoints) hold the task id and nothing else
Dispatch_delay(k) ==
  /\ dpc = "start"
  /\ \E u \in Users, n \in NoteIds :
       /\ dcaller' = u
       /\ dnote' = n
       /\ kind' = k
       /\ IF note_query(note, n, u) = NoRow
          THEN /\ dpc' = "rejected"
               /\ UNCHANGED <<queue, enqueued>>
          ELSE /\ queue' = Append(queue, [retries |-> 0, countdown |-> 0])
               /\ enqueued' = enqueued + 1
               /\ dpc' = IF k \in TrackedKinds THEN "queued" ELSE "done"
  /\ UNCHANGED <<row, now, backend, note, workerVars, streamVars, pollVars,
                 published, gatewayVars, executions, hookNoRow, edgeVars>>

\* enhance_note / summarize_note_streaming, second half:
\* task_service.create_task(task_id=task.id, ...) inserts the pending row
Dispatch_create_task ==
  /\ dpc = "queued"
  /\ row' = create_task(dcaller, kind, now)
  /\ now' = now + 1
  /\ dpc' = "done"
  /\ UNCHANGED <<kind, dcaller, dnote, enqueued, queue, backend, note,
                 workerVars, streamVars, pollVars, published, gatewayVars,
                 executions, hookNoRow, edgeVars>>

\* create_task raises (the INSERT or its commit fails): the request ends
\* with a 500 and the message stays on the queue
Dispatch_create_task_fails ==
  /\ dpc = "queued"
  /\ dpc' = "failed"
  /\ UNCHANGED <<row, now, kind, dcaller, dnote, enqueued, queue, backend,
                 note, workerVars, streamVars, pollVars, published,
                 gatewayVars, executions, hookNoRow, edgeVars>>

\* ----------------------------------------------------------------- worker

\* the worker takes the next message of the task from the queue
Dequeue ==
  /\ wpc = "idle"
  /\ queue # <<>>
  /\ request' = Head(queue)
  /\ queue' = Tail(queue)
  /\ wret' = [state |-> NULL, retval |-> NULL]
  /\ wpc' = "prerun"
  /\ UNCHANGED <<row, now, backend, note, dispatchVars, wupd, streamVars,
                 pollVars, published, gatewayVars, executions, hookNoRow,
                 edgeVars>>

\* a signal hook calls update_task_status(task_id, status, result, error):
\* get_task, then either return None or modify the loaded object
HookRead(at, status, result, error, committing, skipping) ==
  /\ wpc = at
  /\ IF get_task(row, NULL) = NoRow
     THEN /\ wpc' = skipping
          /\ hookNoRow' = TRUE
          /\ UNCHANGED wupd
     ELSE /\ wupd' = Call(get_task(row, NULL), status, result, error)
          /\ wpc' = committing
          /\ UNCHANGED hookNoRow
  /\ UNCHANGED <<row, now, queue, backend, note, dispatchVars, request, wret,
                 streamVars, pollVars, published, gatewayVars, executions,
                 edgeVars>>

\* the rest of the hook's update_task_status: assignments and db.commit();
\* when the row has been deleted since the read, the UPDATE matches nothing,
\* commit raises and the receiver ends there (Celery logs the exception)
HookCommit(at, next, raising) ==
  /\ wpc = at
  /\ row' = Committed(row, wupd, now)
  /\ now' = now + 1
  /\ wupd' = NoCall
  /\ wpc' = IF row = NoRow THEN raising ELSE next
  /\ lateCommit' = (lateCommit \/ deleted)
  /\ UNCHANGED <<queue, backend, note, dispatchVars, request, wret,
                 streamVars, pollVars, published, gatewayVars, executions,
                 hookNoRow, chunkedVars, xpc, xuser, deleted, sideVars>>

\* task_prerun_handler: update_task_status(task_id, "running")
task_prerun_handler_read ==
  HookRead("prerun", "running", NULL, NULL, "prerun_commit", "body")

task_prerun_handler_commit ==
  HookCommit("prerun_commit", "body", "body")

\* the task body returned retval: Celery stores SUCCESS and goes on to postrun
Return(retval) ==
  /\ backend' = [state |-> "SUCCESS", result |-> retval]
  /\ wret' = [state |-> "SUCCESS", retval |-> [dict |-> TRUE, text |-> retval]]
  /\ wpc' = "postrun_users"
  /\ UNCHANGED queue

\* except Exception as e: raise self.retry(exc=e, countdown=60)
\* Task.retry re-sends the message and raises Retry while retries remain,
\* and raises e itself once request.retries has reached max_retries
Raise(e) ==
  IF request.retries < MAX_RETRIES
  THEN /\ queue' = Append(queue, [retries |-> request.retries + 1,
                                  countdown |-> RETRY_COUNTDOWN])
       /\ backend' = [state |-> "RETRY", result |-> e]
       /\ wret' = [state |-> "RETRY",
                   retval |-> [dict |-> FALSE,
                               text |-> RETRY_TEXT \o ": " \o e]]
       /\ wpc' = "postrun_users"
  ELSE /\ backend' = [state |-> "FAILURE", result |-> e]
       /\ wret' = [state |-> "FAILURE",
                   retval |-> [dict |-> FALSE, text |-> e]]
       /\ wpc' = "failure"
       /\ UNCHANGED queue

RET_ENHANCE == "{'note_id': 1, 'success': True, 'type': 'enhance'}"
RET_SUMMARY == "{'note_id': 1, 'success': True, 'summary_length': n}"
ENHANCED == "enhanced content"

\* task_enhance_note: the whole body; the outcome is the environment's choice
task_enhance_note ==
  /\ wpc = "body"
  /\ kind = "enhance"
  /\ executions' = executions + 1
  /\ \E out \in {"ok", ERR_NOTE, ERR_OLLAMA} :
       IF out = "ok"
       THEN /\ note' = [note EXCEPT !.ai_enhanced_content = ENHANCED]
            /\ Return(RET_ENHANCE)
       ELSE /\ Raise(out)
            /\ UNCHANGED note
  /\ UNCHANGED <<row, now, dispatchVars, request, wupd, streamVars, pollVars,
                 published, gatewayVars, hookNoRow, edgeVars>>

RET_QUIZ == "{'quiz_id': 1, 'questions': [...], 'total': 5}"
RET_QUIZ_ERROR == "{'error': 'Invalid format'}"
RET_TRACKING == "{'note_id': 1, 'status': 'streaming'}"

\* task_generate_quiz: the whole body; every exception is caught inside and
\* turned into a returned {"error": ...}, so the task always returns
task_generate_quiz ==
  /\ wpc = "body"
  /\ kind = "quiz"
  /\ executions' = executions + 1
  /\ \E retval \in {RET_QUIZ, RET_QUIZ_ERROR} : Return(retval)
  /\ UNCHANGED <<row, now, note, dispatchVars, request, wupd, streamVars,
                 pollVars, published, gatewayVars, hookNoRow, edgeVars>>

\* task_stream_enhance_note / task_stream_summary, the tracking tasks of the
\* chunked endpoints: update_state(state="STARTED"), then return
task_stream_enhance_note ==
  /\ wpc = "body"
  /\ kind \in ChunkedKinds
  /\ executions' = executions + 1
  /\ Return(RET_TRACKING)
  /\ UNCHANGED <<row, now, note, dispatchVars, request, wupd, streamVars,
                 pollVars, published, gatewayVars, hookNoRow, edgeVars>>

\* full_text += chunk
Accumulate(text, chunk) == text \o chunk

\* FragmentText(i): the i-th fragment the generative endpoint produces
FragmentText(i) ==
  IF i = 1 THEN "Hello" ELSE IF i = 2 THEN " world" ELSE "!"

\* json.dumps({"type": "chunk", "data": chunk, "done": False})
ChunkEvent(chunk) == [type |-> "chunk", data |-> chunk, done |-> FALSE]

\* json.dumps({"type": "complete", "data": full_text, "done": True})
CompleteEvent(text) == [type |-> "complete", data |-> text, done |-> TRUE]

\* task_stream_summarize_note up to the first fragment: the note lookup,
\* then full_text = "" and the adapter's sequence is opened
task_stream_summarize_note_start ==
  /\ wpc = "body"
  /\ kind = "summarize_stream"
  /\ executions' = executions + 1
  /\ \/ /\ Raise(ERR_NOTE)
        /\ UNCHANGED streamVars
     \/ /\ full_text' = ""
        /\ idx' = 0
        /\ adapter' = "open"
        /\ wpc' = "streaming"
        /\ UNCHANGED <<queue, backend, wret>>
  /\ UNCHANGED <<row, now, note, dispatchVars, request, wupd, pollVars,
                 published, gatewayVars, hookNoRow, edgeVars>>

\* one round of "async for chunk in streaming_service.stream_content(...)":
\* stream_generate yields the next fragment, or, when the endpoint fails,
\* catches the exception and yields "[Error: ...]" as its last fragment;
\* the handler appends the fragment to full_text and publishes it
stream_and_publish_chunk ==
  /\ wpc = "streaming"
  /\ adapter = "open"
  /\ idx < MaxChunks
  /\ \E failed \in BOOLEAN :
       LET chunk == IF failed THEN ERR_FRAGMENT ELSE FragmentText(idx + 1)
       IN /\ full_text' = Accumulate(full_text, chunk)
          /\ idx' = idx + 1
          /\ adapter' = IF failed THEN "ended" ELSE "open"
          /\ Publish(StreamChannel, ChunkEvent(chunk))
  /\ UNCHANGED <<streamClientVars, stream2ClientVars, statusClientVars,
                 row, now, queue,
                 backend, note, dispatchVars, workerVars, pollVars,
                 executions, hookNoRow, edgeVars>>

\* an exception inside the loop, while the handler waits for a further
\* fragment (the soft time limit, a broker error in publish): the except
\* clause of the handler retries the whole task
stream_and_publish_raise ==
  /\ wpc = "streaming"
  /\ adapter = "open" /\ idx >= 1 /\ idx < MaxChunks
  /\ Raise(ERR_LIMIT)
  /\ full_text' = "" /\ idx' = 0 /\ adapter' = "closed"
  /\ UNCHANGED <<row, now, note, dispatchVars, request, wupd, pollVars,
                 published, gatewayVars, executions, hookNoRow, edgeVars>>

\* the sequence is exhausted: publish the complete event with full_text
stream_and_publish_complete ==
  /\ wpc = "streaming"
  /\ adapter = "ended" \/ idx = MaxChunks
  /\ Publish(StreamChannel, CompleteEvent(full_text))
  /\ adapter' = "closed"
  /\ wpc' = "save"
  /\ UNCHANGED <<streamClientVars, stream2ClientVars, statusClientVars,
                 row, now, queue,
                 backend, note, dispatchVars, request, wret, wupd, full_text,
                 idx, pollVars, executions, hookNoRow, edgeVars>>

\* note.ai_summary = full_text; session.commit(); return {...}
task_stream_summarize_note_save ==
  /\ wpc = "save"
  /\ note' = [note EXCEPT !.ai_summary = full_text]
  /\ Return(RET_SUMMARY)
  /\ full_text' = "" /\ idx' = 0
  /\ UNCHANGED <<row, now, dispatchVars, request, wupd, adapter, pollVars,
                 published, gatewayVars, executions, hookNoRow, edgeVars>>

\* task_failure_handler: update_task_status(task_id, "failed", error=str(exc))
task_failure_handler_read ==
  HookRead("failure", "failed", NULL, wret.retval.text,
           "failure_commit", "postrun_users")

task_failure_handler_commit ==
  HookCommit("failure_commit", "postrun_users", "postrun_users")

\* update_celery_task_status: publish get_task_info(task_id) on channel task_id
update_celery_task_status(at, next) ==
  /\ wpc = at
  /\ Publish(TaskId, get_task_info(backend))
  /\ wpc' = next
  /\ UNCHANGED <<streamClientVars, stream2ClientVars, statusClientVars,
                 row, now, queue,
                 backend, note, dispatchVars, request, wret, wupd,
                 streamVars, pollVars, executions, hookNoRow, edgeVars>>

\* users/tasks.py task_postrun_handler, connected first: broadcast only
users_task_postrun_handler ==
  update_celery_task_status("postrun_users", "postrun")

\* retval if isinstance(retval, dict) else {"result": str(retval)}
PostrunResult(retval) ==
  IF retval.dict THEN retval.text ELSE "{'result': '" \o retval.text \o "'}"

\* ollama/tasks.py task_postrun_handler:
\* update_task_status(task_id, "success", result=...), whatever the outcome
task_postrun_handler_read ==
  HookRead("postrun", "success", PostrunResult(wret.retval), NULL,
           "postrun_commit", "postrun_publish")

task_postrun_handler_commit ==
  HookCommit("postrun_commit", "postrun_publish", "idle")

\* ... then async_to_sync(update_celery_task_status)(task_id)
task_postrun_handler_publish ==
  update_celery_task_status("postrun_publish", "idle")

\* ------------------------------------------------- GET /tasks/{task_id}

\* get_task_status: the query for the caller's row; 404 when there is none
get_task_status_query(u) ==
  /\ ppc = "idle"
  /\ puser' = u
  /\ IF get_task(row, u) = NoRow
     THEN /\ presp' = "404"
          /\ UNCHANGED <<ppc, ploaded>>
     ELSE /\ ploaded' = get_task(row, u)
          /\ ppc' = "queried"
          /\ UNCHANGED presp
  /\ UNCHANGED <<row, now, queue, backend, note, dispatchVars, workerVars,
                 streamVars, pinfo, published, gatewayVars, executions,
                 hookNoRow, edgeVars>>

\* celery_info = get_task_info(task_id); celery_state = state.lower();
\* without a difference to task.status the loaded row is the response
get_task_status_info ==
  /\ ppc = "queried"
  /\ pinfo' = get_task_info(backend)
  /\ IF lower(backend.state) # ploaded.status
     THEN /\ ppc' = "update"
          /\ UNCHANGED presp
     ELSE /\ ppc' = "idle"
          /\ presp' = ploaded.status
  /\ UNCHANGED <<row, now, queue, backend, note, dispatchVars, workerVars,
                 streamVars, ploaded, puser, published, gatewayVars,
                 executions, hookNoRow, edgeVars>>

\* service.update_task_status(task_id, celery_state, result, error) on the
\* object the request loaded, db.commit(), db.refresh(task), response
get_task_status_update ==
  /\ ppc = "update"
  /\ row' = Committed(row, Call(ploaded, lower(pinfo.state), pinfo.result,
                                 pinfo.error), now)
  /\ now' = now + 1
  /\ presp' = row'.status
  /\ ppc' = "idle"
  /\ UNCHANGED <<queue, backend, note, dispatchVars, workerVars, streamVars,
                 ploaded, pinfo, puser, published, gatewayVars, executions,
                 hookNoRow, edgeVars>>

\* ---------------------------------------------- DELETE /tasks/{task_id}

\* everything outside the DELETE request, the table, the queue and the worker
notCancelVars ==
  <<note, dispatchVars, pollVars, published, gatewayVars, executions,
    hookNoRow, chunkedVars, sideVars>>

\* cancel_task: the query for the caller's row; 404 when there is none
cancel_task_query(u) ==
  /\ xpc \in {"idle", "404", "200"}
  /\ xuser' = u
  /\ xpc' = IF get_task(row, u) = NoRow THEN "404" ELSE "found"
  /\ UNCHANGED <<row, now, queue, backend, workerVars, streamVars, deleted,
                 lateCommit, notCancelVars>>

\* current_app.control.revoke(task_id, terminate=True), best effort: either
\* nothing comes of it (the call raises, or the worker is past the point of
\* stopping), or the waiting messages of the task are discarded and the
\* execution in progress is killed where it stands, hooks included
cancel_task_revoke ==
  /\ xpc = "found"
  /\ xpc' = "revoked"
  /\ \/ UNCHANGED <<queue, backend, workerVars, streamVars>>
     \/ /\ queue' = <<>>
        /\ IF wpc = "idle"
           THEN UNCHANGED <<backend, workerVars, streamVars>>
           ELSE /\ backend' = [state |-> "REVOKED", result |-> NULL]
                /\ wpc' = "idle"
                /\ wupd' = NoCall
                /\ full_text' = "" /\ idx' = 0 /\ adapter' = "closed"
                /\ UNCHANGED <<request, wret>>
  /\ UNCHANGED <<row, now, xuser, deleted, lateCommit, notCancelVars>>

\* db.delete(task); db.commit(); "Task cancelled"
cancel_task_delete ==
  /\ xpc = "revoked"
  /\ row' = NoRow
  /\ deleted' = TRUE
  /\ xpc' = "200"
  /\ UNCHANGED <<now, queue, backend, workerVars, streamVars, xuser,
                 lateCommit, notCancelVars>>

\* ----------------------------------------------------- /ws/stream/{task_id}

\* the task has been executed for the last time: nothing is queued for it and
\* the worker has finished every hook of the last execution
Finished ==
  /\ dpc = "done"
  /\ queue = <<>>
  /\ wpc = "idle"
  /\ backend.state \in {"SUCCESS", "FAILURE"}

\* ws_ollama_stream up to the subscription: the cookie's token verifies,
\* websocket.accept(), broadcast.subscribe(channel="stream:<task_id>")
ws_ollama_stream_connect(u) ==
  /\ spc = "none"
  /\ spc' = "relay"
  /\ suser' = u
  /\ slate' = Finished
  /\ UNCHANGED <<row, now, queue, backend, note, dispatchVars, workerVars,
                 streamVars, pollVars, published, ssent, stream2ClientVars,
                 statusClientVars, inboxes, executions, hookNoRow,
                 chunkedVars, cancelVars, sweepVars, rateVars, tuser>>

\* one round of "async for event in subscriber": send_json(data), and
\* break / websocket.close() when data.get("done")
ws_ollama_stream_relay ==
  /\ spc = "relay"
  /\ sinbox # <<>>
  /\ ssent' = Append(ssent, Head(sinbox))
  /\ sinbox' = Tail(sinbox)
  /\ spc' = IF Head(sinbox).done THEN "closed" ELSE "relay"
  /\ UNCHANGED <<row, now, queue, backend, note, dispatchVars, workerVars,
                 streamVars, pollVars, published, slate, stream2ClientVars,
                 s2inbox, statusClientVars, tinbox, executions, hookNoRow,
                 edgeVars>>

\* the client of /ws/stream/{task_id} goes away: send_json or the receive
\* loop of the server raises WebSocketDisconnect, the subscription is left
ws_ollama_stream_disconnect ==
  /\ spc = "relay"
  /\ spc' = "gone"
  /\ UNCHANGED <<row, now, queue, backend, note, dispatchVars, workerVars,
                 streamVars, pollVars, published, ssent, slate,
                 stream2ClientVars, statusClientVars, inboxes, executions,
                 hookNoRow, edgeVars>>

\* a second connection to /ws/stream/{task_id}, with a subscription of its own
ws_ollama_stream2_connect ==
  /\ s2pc = "none"
  /\ s2pc' = "relay"
  /\ UNCHANGED <<row, now, queue, backend, note, dispatchVars, workerVars,
                 streamVars, pollVars, published, s2sent, streamClientVars,
                 statusClientVars, inboxes, executions, hookNoRow, edgeVars>>

ws_ollama_stream2_relay ==
  /\ s2pc = "relay"
  /\ s2inbox # <<>>
  /\ s2sent' = Append(s2sent, Head(s2inbox))
  /\ s2inbox' = Tail(s2inbox)
  /\ s2pc' = IF Head(s2inbox).done THEN "closed" ELSE "relay"
  /\ UNCHANGED <<row, now, queue, backend, note, dispatchVars, workerVars,
                 streamVars, pollVars, published, streamClientVars, sinbox,
                 statusClientVars, tinbox, executions, hookNoRow, edgeVars>>

\* ------------------------------------------------ /ws/task_status/{task_id}

\* ws_task_status up to the subscription: the token verifies,
\* websocket.accept(), broadcast.subscribe(channel=task_id)
ws_task_status_connect(u) ==
  /\ tpc = "none"
  /\ tpc' = "subscribed"
  /\ tuser' = u
  /\ tlate' = Finished
  /\ UNCHANGED <<row, now, queue, backend, note, dispatchVars, workerVars,
                 streamVars, pollVars, published, tsent, streamClientVars,
                 stream2ClientVars, inboxes, executions, hookNoRow,
                 chunkedVars, cancelVars, sweepVars, rateVars, suser>>

\* data = get_task_info(task_id); websocket.send_json(data)
ws_task_status_snapshot ==
  /\ tpc = "subscribed"
  /\ tsent' = Append(tsent, get_task_info(backend))
  /\ tpc' = "relay"
  /\ UNCHANGED <<row, now, queue, backend, note, dispatchVars, workerVars,
                 streamVars, pollVars, published, tlate, streamClientVars,
                 stream2ClientVars, inboxes, executions, hookNoRow, edgeVars>>

\* one round of "async for event in subscriber": send_json(event.message)
ws_task_status_relay ==
  /\ tpc = "relay"
  /\ tinbox # <<>>
  /\ tsent' = Append(tsent, Head(tinbox))
  /\ tinbox' = Tail(tinbox)
  /\ UNCHANGED <<row, now, queue, backend, note, dispatchVars, workerVars,
                 streamVars, pollVars, published, tpc, tlate,
                 streamClientVars, stream2ClientVars, sinbox, s2inbox,
                 executions, hookNoRow, edgeVars>>

\* ------------------------- POST /ollama/enhance/stream, /ollama/summary/stream

\* what precedes the JSON text in a frame: f"data: {...}\n\n", and for the
\* chunk frames f" \<newline>                    data: {...}\n\n", a literal
\* continued over two source lines, whose text starts with a blank and the
\* 20 blanks of the second line's indentation
DataFraming == "data: "
ChunkFraming == "                     data: "

\* the frames generate() yields into the response body
TaskIdFrame ==
  [framing |-> DataFraming, type |-> "task_id", task_id |-> TaskId,
   status |-> "started"]
ChunkFrame(chunk) ==
  [framing |-> ChunkFraming, type |-> "chunk", chunk |-> chunk,
   done |-> FALSE]
DoneFrame(text) ==
  [framing |-> DataFraming, type |-> "done", chunk |-> "", done |-> TRUE,
   full_text |-> text, task_id |-> TaskId]
ErrorFrame(e) ==
  [framing |-> DataFraming, type |-> "error", error |-> e, done |-> TRUE]

ERR_BROKER == "OperationalError()"

\* everything outside the chunked response
notChunkedVars ==
  <<row, now, queue, backend, note, dispatchVars, workerVars, streamVars,
    pollVars, published, gatewayVars, executions, hookNoRow, cancelVars,
    sideVars>>

\* the number of fragments the response has yielded so far
ChunkFrames == Len(SelectSeq(cframes, LAMBDA f : f.type = "chunk"))

\* StreamingResponse(generate()): the response starts with the task id frame
chunked_start ==
  /\ dpc = "done"
  /\ kind \in ChunkedKinds
  /\ cpc = "none"
  /\ cframes' = <<TaskIdFrame>>
  /\ ctext' = ""
  /\ cpc' = "streaming"
  /\ UNCHANGED <<csaved, cgone, notChunkedVars>>

\* one round of "async for chunk in streaming_service.stream_content(...)":
\* the next fragment, or "[Error: ...]" as the last one when the endpoint
\* fails; full_text += chunk and the chunk frame is yielded
chunked_chunk ==
  /\ cpc = "streaming"
  /\ ChunkFrames < MaxChunks
  /\ \E failed \in BOOLEAN :
       LET chunk == IF failed THEN ERR_FRAGMENT
                    ELSE FragmentText(ChunkFrames + 1)
       IN /\ ctext' = Accumulate(ctext, chunk)
          /\ cframes' = Append(cframes, ChunkFrame(chunk))
          /\ cpc' = IF failed THEN "ended" ELSE "streaming"
  /\ UNCHANGED <<csaved, cgone, notChunkedVars>>

\* the sequence is exhausted: task_save_enhanced_note.delay(note.id,
\* full_text) and the done frame; when .delay raises, the except clause
\* yields the error frame instead
chunked_finish ==
  /\ cpc = "ended" \/ (cpc = "streaming" /\ ChunkFrames = MaxChunks)
  /\ \/ /\ csaved' = TRUE
        /\ cframes' = Append(cframes, DoneFrame(ctext))
     \/ /\ cframes' = Append(cframes, ErrorFrame(ERR_BROKER))
        /\ UNCHANGED csaved
  /\ cpc' = "done"
  /\ UNCHANGED <<ctext, cgone, notChunkedVars>>

\* the client of the chunked response goes away
chunked_disconnect ==
  /\ cpc \in {"streaming", "ended"}
  /\ ~cgone
  /\ cgone' = TRUE
  /\ UNCHANGED <<cpc, cframes, ctext, csaved, notChunkedVars>>

\* the server notices the disconnect: the response is cancelled and
\* generate() is never resumed (it may also go unnoticed, and generate()
\* runs on)
chunked_cancelled ==
  /\ cgone
  /\ cpc \in {"streaming", "ended"}
  /\ cpc' = "cancelled"
  /\ UNCHANGED <<cframes, ctext, csaved, cgone, notChunkedVars>>

\* ---------------------------------------------------- cleanup_old_tasks

\* the retention, in days, the sweep is run with
Retentions == {1, 2}

\* the status values the hooks and the GET reconciliation write
WrittenStatuses == {"running", "success", "failed", "retry"}

\* everything outside the sweep and its table
notSweepVars ==
  <<row, now, queue, backend, note, dispatchVars, workerVars, streamVars,
    pollVars, published, gatewayVars, executions, hookNoRow, chunkedVars,
    cancelVars, rateVars, wsUserVars>>

\* (the filter without its status condition)
sweep_filter_any_status(task, cutoff) ==
  task.completed_at # NoTime /\ task.completed_at < cutoff

\* filter(TaskMetadata.completed_at < cutoff,
\*        TaskMetadata.status.in_(["success", "failed"]));
\* a NULL completed_at compares as unknown and does not match
sweep_filter(task, cutoff) ==
  /\ task.completed_at # NoTime /\ task.completed_at < cutoff
  /\ task.status \in {"success", "failed"}

\* the rows of tbl the filter selects
sweep_matches(tbl, cutoff) ==
  {i \in DOMAIN tbl : tbl[i] # NoRow /\ sweep_filter(tbl[i], cutoff)}

\* a dispatch endpoint creates the record of a task
sweep_create_task ==
  /\ \E i \in SweepIds :
       /\ tasks[i] = NoRow
       /\ tasks' = [tasks EXCEPT ![i] = create_task(Owner, "enhance", utcnow)]
  /\ UNCHANGED <<utcnow, sweep, notSweepVars>>

\* a hook or the reconciliation updates the status of a record
sweep_update_task_status ==
  /\ \E i \in SweepIds, st \in WrittenStatuses :
       /\ tasks[i] # NoRow
       /\ tasks' = [tasks EXCEPT
                      ![i] = update_task_status(@, st, NULL, NULL, utcnow)]
  /\ UNCHANGED <<utcnow, sweep, notSweepVars>>

\* a day passes
sweep_next_day ==
  /\ utcnow < MaxDay
  /\ utcnow' = utcnow + 1
  /\ UNCHANGED <<tasks, sweep, notSweepVars>>

\* cleanup_old_tasks(days): cutoff = utcnow() - timedelta(days=days), the
\* bulk DELETE of the rows the filter selects, commit, and the count
cleanup_old_tasks ==
  /\ sweep.runs < MaxSweeps
  /\ \E days \in Retentions :
       LET cutoff == utcnow - days
           gone == sweep_matches(tasks, cutoff)
       IN /\ tasks' = [i \in SweepIds |->
                         IF i \in gone THEN NoRow ELSE tasks[i]]
          /\ sweep' = [runs |-> sweep.runs + 1, days |-> days,
                       cutoff |-> cutoff, deleted_count |-> Cardinality(gone)]
  /\ UNCHANGED <<utcnow, notSweepVars>>

\* --------------------------------------------------- rate_limit_middleware

\* seconds between two readings of time.time() that differ
ClockStep == 50

\* everything outside the rate limiter
notRateVars ==
  <<row, now, queue, backend, note, dispatchVars, workerVars, streamVars,
    pollVars, published, gatewayVars, executions, hookNoRow, chunkedVars,
    cancelVars, sweepVars, wsUserVars>>

\* limiter = RateLimiter(): the Redis storage, or the in-memory one when
\* redis.from_url raises
RateLimiter_init ==
  /\ storage = NULL
  /\ storage' \in {"redis", "memory"}
  /\ UNCHANGED <<zset, memory, clock, admitted, rresp, notRateVars>>

\* time passes
rate_clock ==
  /\ clock + ClockStep <= MaxClock
  /\ clock' = clock + ClockStep
  /\ UNCHANGED <<storage, zset, memory, admitted, rresp, notRateVars>>

\* _redis_check: the pipeline, which Redis executes as one transaction:
\* zremrangebyscore(key, 0, now - window) removes the members with
\* score <= now - window; zcard(key) counts the rest; zadd(key, {str(now):
\* now}) adds the member named by the time, which is the same member for
\* two requests that read the same time; results[1] < limit
redis_check(members, t, limit, window) ==
  LET kept == {m \in members : m > t - window}
  IN [zset |-> kept \cup {t}, allowed |-> Cardinality(kept) < limit]

\* _memory_check: drop the entries with now - req >= window, refuse when
\* limit entries remain, append now otherwise
memory_check(entries, t, limit, window) ==
  LET kept == SelectSeq(entries, LAMBDA req : t - req < window)
  IN IF Len(kept) >= limit
     THEN [memory |-> kept, allowed |-> FALSE]
     ELSE [memory |-> Append(kept, t), allowed |-> TRUE]

\* what the middleware does with the verdict: 429, or call_next(request)
rate_respond(allowed) ==
  /\ rresp' = IF allowed THEN "call_next" ELSE "429"
  /\ admitted' = IF allowed THEN Append(admitted, clock) ELSE admitted

\* rate_limit_middleware for a request of the client to /auth/login:
\* limiter.is_allowed("rate:<ip>:/auth/login", 5, 300); with the Redis
\* storage the pipeline may raise (Redis unreachable), which is_allowed
\* answers with True
rate_limit_middleware ==
  /\ Len(admitted) < MaxRequests
  /\ \/ /\ storage = "redis"
        /\ LET r == redis_check(zset, clock, LOGIN_LIMIT, LOGIN_WINDOW)
           IN /\ zset' = r.zset
              /\ rate_respond(r.allowed)
        /\ UNCHANGED memory
     \/ /\ storage = "redis"
        /\ rate_respond(TRUE)
        /\ UNCHANGED <<zset, memory>>
     \/ /\ storage = "memory"
        /\ LET r == memory_check(memory, clock, LOGIN_LIMIT, LOGIN_WINDOW)
           IN /\ memory' = r.memory
              /\ rate_respond(r.allowed)
        /\ UNCHANGED zset
  /\ UNCHANGED <<storage, clock, notRateVars>>

\* ----------------------------------------------------------- specification

\* one execution of a message: Celery's trace of the task, hook by hook
Hooks ==
  \/ Dequeue
  \/ task_prerun_handler_read
  \/ task_prerun_handler_commit
  \/ task_failure_handler_read
  \/ task_failure_handler_commit
  \/ users_task_postrun_handler
  \/ task_postrun_handler_read
  \/ task_postrun_handler_commit
  \/ task_postrun_handler_publish

\* records being created and updated while days pass and the sweep runs
SweepNext ==
  \/ sweep_create_task
  \/ sweep_update_task_status
  \/ sweep_next_day
  \/ cleanup_old_tasks

SweepSpec == Init /\ [][SweepNext]_vars

\* one client's requests to /auth/login as time passes
RateNext ==
  \/ RateLimiter_init
  \/ rate_clock
  \/ rate_limit_middleware

RateSpec == Init /\ [][RateNext]_vars

\* the streaming handler, step by step
StreamHandler ==
  \/ task_stream_summarize_note_start
  \/ stream_and_publish_chunk
  \/ stream_and_publish_raise
  \/ stream_and_publish_complete
  \/ task_stream_summarize_note_save

\* POST /ollama/enhance, its task, and a client polling GET /tasks/{task_id}
Next ==
  \/ Dispatch_delay("enhance")
  \/ Dispatch_create_task
  \/ Hooks
  \/ task_enhance_note
  \/ \E u \in Users : get_task_status_query(u)
  \/ get_task_status_info
  \/ get_task_status_update

Spec == Init /\ [][Next]_vars

\* POST /ollama/summarize/socket/stream, its task, and a client of
\* /ws/stream/{task_id}
StreamNext ==
  \/ Dispatch_delay("summarize_stream")
  \/ Dispatch_create_task
  \/ Hooks
  \/ StreamHandler
  \/ ws_ollama_stream_connect(Owner)
  \/ ws_ollama_stream_relay
  \/ ws_ollama_stream_disconnect

StreamSpec == Init /\ [][StreamNext]_vars

\* POST /ollama/enhance, its task, and a client of /ws/task_status/{task_id}
StatusNext ==
  \/ Dispatch_delay("enhance")
  \/ Dispatch_create_task
  \/ Hooks
  \/ task_enhance_note
  \/ ws_task_status_connect(Owner)
  \/ ws_task_status_snapshot
  \/ ws_task_status_relay

StatusSpec == Init /\ [][StatusNext]_vars

\* POST /ollama/summarize/socket/stream, its task, and two clients of
\* /ws/stream/{task_id}
FanoutNext ==
  \/ Dispatch_delay("summarize_stream")
  \/ Dispatch_create_task
  \/ Hooks
  \/ task_stream_summarize_note_start
  \/ stream_and_publish_chunk
  \/ stream_and_publish_complete
  \/ task_stream_summarize_note_save
  \/ ws_ollama_stream_connect(Owner)
  \/ ws_ollama_stream_relay
  \/ ws_ollama_stream2_connect
  \/ ws_ollama_stream2_relay

FanoutSpec == Init /\ [][FanoutNext]_vars

\* POST /ollama/summarize/socket/stream, its task, and a client of each
\* WebSocket gateway that has authenticated as either user
GatewayNext ==
  \/ Dispatch_delay("summarize_stream")
  \/ Dispatch_create_task
  \/ Hooks
  \/ task_stream_summarize_note_start
  \/ stream_and_publish_chunk
  \/ stream_and_publish_complete
  \/ task_stream_summarize_note_save
  \/ \E u \in Users : ws_ollama_stream_connect(u)
  \/ ws_ollama_stream_relay
  \/ \E u \in Users : ws_task_status_connect(u)
  \/ ws_task_status_snapshot
  \/ ws_task_status_relay

GatewaySpec == Init /\ [][GatewayNext]_vars

\* POST /ollama/enhance, its task, DELETE /tasks/{task_id} by either user and
\* GET /tasks/{task_id} by the user who does not own the task
CancelNext ==
  \/ Dispatch_delay("enhance")
  \/ Dispatch_create_task
  \/ Hooks
  \/ task_enhance_note
  \/ \E u \in Users \ {Owner} : get_task_status_query(u)
  \/ \E u \in Users : cancel_task_query(u)
  \/ cancel_task_revoke
  \/ cancel_task_delete

CancelSpec == Init /\ [][CancelNext]_vars

\* the chunked endpoints: the response, its client, and the tracking task,
\* whose hooks find no TaskRecord
ChunkedNext ==
  \/ \E k \in ChunkedKinds : Dispatch_delay(k)
  \/ Dequeue
  \/ task_prerun_handler_read
  \/ task_stream_enhance_note
  \/ users_task_postrun_handler
  \/ task_postrun_handler_read
  \/ task_postrun_handler_publish
  \/ chunked_start
  \/ chunked_chunk
  \/ chunked_finish
  \/ chunked_disconnect
  \/ chunked_cancelled

ChunkedSpec == Init /\ [][ChunkedNext]_vars

\* every dispatching endpoint, with the task it queues
DispatchNext ==
  \/ \E k \in Kinds : Dispatch_delay(k)
  \/ Dispatch_create_task
  \/ Dispatch_create_task_fails
  \/ Hooks
  \/ task_enhance_note
  \/ StreamHandler
  \/ task_generate_quiz
  \/ task_stream_enhance_note

DispatchSpec == Init /\ [][DispatchNext]_vars

\* the worker and the request handlers always get to take their next step,
\* and the client keeps polling
FairSpec ==
  /\ Spec
  /\ WF_vars(Hooks \/ task_enhance_note)
  /\ WF_vars(Dispatch_delay("enhance") \/ Dispatch_create_task)
  /\ WF_vars((\E u \in Users : get_task_status_query(u))
             \/ get_task_status_info \/ get_task_status_update)

\* ----------------------------------------------------------------- claims

STATUSES == {"pending", "running", "success", "failed"}
TERMINAL == {"success", "failed"}

\* C1: the status of a TaskRecord moves only along
\* pending -> running -> {success, failed}, whichever hook or reconciliation
\* writes it, and a terminal status is never changed by a later write
C1_StatusPath ==
  [][(~hookNoRow /\ row # NoRow /\ row' # NoRow
      /\ row'.status # row.status) =>
       \/ row.status = "pending" /\ row'.status = "running"
       \/ row.status = "running" /\ row'.status \in TERMINAL]_vars

\* C2: a handler that raised on every attempt leaves, once the 3 retries are
\* used up, status failed with the last exception's message as error, and the
\* task body has been executed at most 1 + 3 times
C2_ExhaustedIsFailed ==
  (Finished /\ backend.state = "FAILURE" /\ ~hookNoRow
     /\ presp = NULL /\ ppc = "idle") =>
    /\ row.status = "failed"
    /\ row.error # NULL /\ row.error = backend.result
    /\ executions <= MAX_RETRIES + 1

\* C3: every TaskRecord created by a dispatch eventually has status success
\* or failed
C3_EventuallyTerminal ==
  [](row # NoRow => <>(row # NoRow /\ row.status \in TERMINAL))

\* C7: no worker hook runs for a task id whose TaskRecord does not exist yet
C7_RecordBeforeHooks == ~hookNoRow

\* C8: the status of a TaskRecord is always one of pending, running, success,
\* failed
C8_StatusDomain == (row # NoRow /\ ~hookNoRow) => row.status \in STATUSES

\* C9: when the completion hook and the reconciliation are both between their
\* read and their commit and one of them has committed a terminal status, the
\* commit of the other leaves status, result and completed_at as they are
C9_FirstTerminalWriterWins ==
  [][(/\ ~hookNoRow
      /\ row # NoRow /\ row.status \in TERMINAL
      /\ \/ wpc = "postrun_commit" /\ wpc' = "postrun_publish"
            /\ wupd.loaded.status \notin TERMINAL
         \/ ppc = "update" /\ ppc' = "idle"
            /\ ploaded.status \notin TERMINAL
            /\ lower(pinfo.state) = "success")
     => /\ row'.status = row.status
        /\ row'.result = row.result
        /\ row'.completed_at = row.completed_at]_vars

\* C10: result is set only while status = success, error only while
\* status = failed
C10_ResultErrorMatchStatus ==
  (row # NoRow /\ ~hookNoRow) =>
    /\ row.result # NULL => row.status = "success"
    /\ row.error # NULL => row.status = "failed"

\* the chunk payloads published on the stream channel in log, concatenated in
\* publish order; those of execution a only, or of every execution if a = -1
RECURSIVE ChunkText(_, _)
ChunkText(log, a) ==
  IF log = <<>> THEN ""
  ELSE LET e == log[Len(log)]
           rest == ChunkText(SubSeq(log, 1, Len(log) - 1), a)
       IN IF /\ e.channel = StreamChannel
             /\ e.message.type = "chunk"
             /\ (a = -1 \/ e.attempt = a)
          THEN rest \o e.message.data
          ELSE rest

IsComplete(e) == e.channel = StreamChannel /\ e.message.type = "complete"

\* C4: once a streaming task has ended in success, the text of its complete
\* event is the concatenation, in publish order, of all chunk payloads
\* published on the task's channel
C4_CompleteIsAllChunks ==
  (Finished /\ backend.state = "SUCCESS" /\ ~hookNoRow) =>
    \A i \in DOMAIN published :
      IsComplete(published[i]) =>
        published[i].message.data = ChunkText(published, -1)

\* what does hold of the complete event: its text is the concatenation, in
\* publish order, of the chunk payloads published by the same execution of
\* the handler
CompleteIsAttemptChunks ==
  \A i \in DOMAIN published :
    IsComplete(published[i]) =>
      published[i].message.data =
        ChunkText(SubSeq(published, 1, i - 1), published[i].attempt)

\* a retried execution has published its complete event, after an earlier
\* execution had published a chunk, and the task ended in success
RetriedThenCompleted ==
  /\ Finished /\ backend.state = "SUCCESS" /\ ~hookNoRow
  /\ \E i, j \in DOMAIN published :
       /\ i < j
       /\ published[i].channel = StreamChannel
       /\ published[i].message.type = "chunk"
       /\ IsComplete(published[j])
       /\ published[i].attempt < published[j].attempt
       /\ published[j].message.data # ""

\* C5: when a streaming task has failed for good, an error event has been
\* published on its stream channel, and a subscriber that was attached during
\* the run and has consumed everything sent to it has received a terminal
\* event
C5_ErrorEventOnFailure ==
  (Finished /\ kind = "summarize_stream" /\ backend.state = "FAILURE"
     /\ ~hookNoRow) =>
    /\ \E i \in DOMAIN published :
         /\ published[i].channel = StreamChannel
         /\ published[i].message.type = "error"
    /\ (spc # "none" /\ ~slate /\ sinbox = <<>>) =>
         (ssent # <<>> /\ ssent[Len(ssent)].done)

\* C6: a client that connected to a gateway after the task had finished has
\* the terminal state as the first message, as soon as the gateway's connect
\* sequence is over, on /ws/stream and on /ws/task_status alike
C6_LateClientGetsTerminalFirst ==
  /\ (spc \in {"relay", "closed"} /\ slate /\ ~hookNoRow) =>
       (ssent # <<>> /\ ssent[1].done)
  /\ (tpc = "relay" /\ tlate /\ ~hookNoRow) =>
       (tsent # <<>> /\ tsent[1].state \in {"SUCCESS", "FAILURE"})

\* the /ws/task_status half of C6 taken alone: the snapshot of a client that
\* connected after the task had finished reports SUCCESS or FAILURE
StatusSnapshotIsTerminal ==
  (tpc = "relay" /\ tlate) =>
    (tsent # <<>> /\ tsent[1].state \in {"SUCCESS", "FAILURE"})

StatusSnapshotWitness == tpc = "relay" /\ tlate /\ tsent # <<>>

\* C11: created_at, started_at and completed_at are each set once and in
\* that order: a value that is set never changes, and completed_at is never
\* set while started_at is not
C11_TimestampsSetOnce ==
  [][(~hookNoRow /\ row # NoRow /\ row' # NoRow) =>
       /\ row'.created_at = row.created_at
       /\ row.started_at # NoTime => row'.started_at = row.started_at
       /\ row.completed_at # NoTime => row'.completed_at = row.completed_at
       /\ row'.completed_at # NoTime =>
            (row'.started_at # NoTime
               /\ row'.started_at <= row'.completed_at)
       /\ row'.started_at # NoTime => row'.created_at <= row'.started_at]_vars

\* C12: a dispatch naming a note that does not exist or is not the caller's
\* is answered not-found, creates no TaskRecord and enqueues no message
C12_NotFoundDispatchesNothing ==
  (dpc # "start" /\ ~(dnote = NoteId /\ dcaller = Owner)) =>
    /\ dpc = "rejected"
    /\ row = NoRow
    /\ queue = <<>> /\ enqueued = 0
    /\ wpc = "idle" /\ executions = 0

\* C12 witness: a dispatch for the existing note by a user who does not own
\* it has been answered
C12_OtherUsersNoteRejected ==
  dpc = "rejected" /\ dnote = NoteId /\ dcaller # Owner /\ kind = "quiz"

\* C13: when a dispatch has answered, there is one TaskRecord row for the
\* task id and the endpoint has put one message on the queue, also when
\* create_task failed after the enqueue
C13_OneRowOneMessage ==
  (dpc \in {"done", "failed"}) => (row # NoRow /\ enqueued = 1)

\* the messages published on the stream channel so far, in publish order
StreamLog ==
  LET sel == SelectSeq(published, LAMBDA e : e.channel = StreamChannel)
  IN [i \in 1..Len(sel) |-> sel[i].message]

C15_GatewayClosesAfterTerminal ==
  /\ \A i \in DOMAIN ssent :
       ssent[i].done => (i = Len(ssent) /\ spc = "closed")
  /\ \A i \in DOMAIN tsent :
       (i >= 2 /\ tsent[i].state \in {"SUCCESS", "FAILURE"}) =>
         (i = Len(tsent) /\ tpc = "closed")

\* the /ws/stream half of C15 taken alone
StreamClosesAfterTerminal ==
  \A i \in DOMAIN ssent :
    ssent[i].done => (i = Len(ssent) /\ spc \in {"closed", "gone"})

C17_DisconnectDoesNotCancel ==
  /\ (cgone /\ cpc \notin {"streaming", "ended"}) => cpc = "done"
  /\ (spc = "gone" /\ Finished /\ backend.state = "SUCCESS") =>
       note.ai_summary # NULL

\* the WebSocket half of C17 taken alone: the step in which the client of
\* /ws/stream goes away leaves the task, its queue and its record as they are
StreamDisconnectKeepsWork ==
  [][(spc # "gone" /\ spc' = "gone") =>
       UNCHANGED <<row, queue, backend, note, workerVars, streamVars,
                   published>>]_vars

\* C18: once the owner's DELETE has succeeded there is no TaskRecord for the
\* task id any more, whatever the hooks of a still running execution do
C18_NoRecordAfterCancel == deleted => row = NoRow

\* C18 witness: a hook that had read the row before the DELETE has done its
\* commit after it
C18_HookCommittedAfterCancel == deleted /\ lateCommit /\ wupd = NoCall

\* C19: a GET or DELETE by a user who does not own the task is answered 404,
\* as for a task id without record, and leaves the record, the queue, the
\* result backend and the worker as they are
C19_OtherUsersTaskIsNotFound ==
  [][/\ (puser' \notin {NULL, dcaller'} /\ pollVars' # pollVars) =>
          /\ presp' = "404" /\ ppc' = "idle"
          /\ UNCHANGED <<row, queue, backend, workerVars>>
     /\ (xuser' \notin {NULL, dcaller'} /\ cancelVars' # cancelVars
          /\ xuser' # xuser) =>
          /\ xpc' = "404"
          /\ UNCHANGED <<row, queue, backend, workerVars, deleted>>
     /\ xpc' \in {"found", "revoked", "200"} => xuser' = dcaller'
     /\ ppc' \in {"queried", "update"} => puser' = dcaller']_vars

\* C19 witness: while the owner's task is running and its record exists, the
\* other user has been answered 404 by GET and by DELETE
C19_BothRequestsRejected ==
  /\ row # NoRow /\ wpc = "body"
  /\ puser \notin {NULL, dcaller} /\ presp = "404"
  /\ xuser \notin {NULL, dcaller} /\ xpc = "404"

\* the number of chunk events execution a has published on the stream channel
RECURSIVE ChunkCount(_, _)
ChunkCount(log, a) ==
  IF log = <<>> THEN 0
  ELSE LET e == log[Len(log)]
           rest == ChunkCount(SubSeq(log, 1, Len(log) - 1), a)
       IN IF /\ e.channel = StreamChannel
             /\ e.message.type = "chunk"
             /\ e.attempt = a
          THEN rest + 1
          ELSE rest

\* the endpoint has failed in the running execution of the streaming handler,
\* after it had delivered exactly one fragment
EndpointFailedAfterOneFragment ==
  /\ kind = "summarize_stream"
  /\ wpc \in {"streaming", "save"}
  /\ adapter \in {"ended", "closed"}
  /\ idx = 2
  /\ full_text = Accumulate(Accumulate("", FragmentText(1)), ERR_FRAGMENT)

\* the execution in which the endpoint failed after one fragment publishes
\* exactly one chunk event and no complete event
FailedAttemptPublishesOneChunk ==
  EndpointFailedAfterOneFragment =>
    /\ ChunkCount(published, request.retries) = 1
    /\ \A i \in DOMAIN published :
         IsComplete(published[i]) => published[i].attempt # request.retries

\* a handler whose endpoint failure was taken for the end of the text does
\* not go on to store the text and succeed: it is retried or fails
FailedAttemptDoesNotSucceed ==
  [][EndpointFailedAfterOneFragment => wret'.state # "SUCCESS"]_vars

\* C20: if the endpoint fails after one fragment, that execution publishes
\* exactly one chunk event and no complete event, and it ends in a retry or,
\* after the 3 retries, in the error event and status failed, never in success
C20_EndpointFailureRetriesThenFails ==
  [][/\ FailedAttemptPublishesOneChunk
     /\ EndpointFailedAfterOneFragment => wret'.state # "SUCCESS"]_vars

\* the last frame of the chunked response body
LastFrame(frames) == frames[Len(frames)]

\* C21: when the adapter fails in the middle of a chunked response, what the
\* gateway sends for the failure is an error payload, not a chunk and not a
\* done payload, and the response ends with it
C21_AdapterFailureEndsWithErrorFrame ==
  [][/\ (cpc = "streaming" /\ cpc' = "ended" /\ ChunkFrames >= 1) =>
          LastFrame(cframes').type = "error"
     /\ (cpc = "ended" /\ cpc' = "done" /\ ChunkFrames >= 2) =>
          LastFrame(cframes').type = "error"]_vars

\* the same at the WebSocket gateway: after the adapter has failed in the
\* execution whose events the client is relayed, the client is sent no
\* complete event
StreamClientGetsNoCompleteAfterFailure ==
  [][(wpc = "streaming" /\ adapter = "ended" /\ idx >= 2) =>
       \A i \in DOMAIN published' :
         i > Len(published) => ~IsComplete(published'[i])]_vars

\* the events a client reads from a response body as "data: {...}" frames
\* separated by blank lines: a frame that does not begin with "data: " is
\* no event to it
ReadEvents(body) == SelectSeq(body, LAMBDA f : f.framing = DataFraming)

\* the chunk payloads of the events in evs, concatenated in order
RECURSIVE EventsText(_)
EventsText(evs) ==
  IF evs = <<>> THEN ""
  ELSE LET e == evs[Len(evs)]
           rest == EventsText(SubSeq(evs, 1, Len(evs) - 1))
       IN IF e.type = "chunk" THEN rest \o e.chunk ELSE rest

\* the body is the task id frame, then chunk frames, then at most one
\* terminal frame, which is the last one
WellFormedBody(evs) ==
  /\ Len(evs) >= 1 => evs[1].type = "task_id"
  /\ \A i \in DOMAIN evs :
       /\ i > 1 => evs[i].type \in {"chunk", "done", "error"}
       /\ evs[i].type \in {"done", "error"} => i = Len(evs)
       /\ evs[i].type = "done" =>
            evs[i].full_text = EventsText(SubSeq(evs, 1, i - 1))

\* C22: the events of a chunked response body are the task id, then the
\* chunks in generation order, then one terminal event, a done event whose
\* full_text is the concatenation of the chunks or an error event; nothing
\* follows the terminal event
C22_ChunkedBodySequence ==
  /\ cpc # "none" => WellFormedBody(ReadEvents(cframes))
  /\ cpc = "done" =>
       /\ Len(ReadEvents(cframes)) >= 2
       /\ LastFrame(ReadEvents(cframes)).type \in {"done", "error"}
  /\ \A i \in DOMAIN cframes :
       (cframes[i].type = "chunk" /\ i <= MaxChunks + 1) =>
          cframes[i].chunk \in {FragmentText(i - 1), ERR_FRAGMENT}

\* the same of the frames as generate() yields them, whatever precedes the
\* JSON text in each
YieldedFramesSequence ==
  /\ cpc # "none" => WellFormedBody(cframes)
  /\ cpc = "done" =>
       /\ Len(cframes) >= 2
       /\ LastFrame(cframes).type \in {"done", "error"}

\* C23: a run of the sweep with a retention of `days` removes the records
\* whose status is success or failed and whose completed_at is older than
\* utcnow - days, and no other: pending and running records and terminal
\* records inside the window stay as they are
C23_SweepDeletesExactlyExpired ==
  [][sweep'.runs # sweep.runs =>
       /\ sweep'.cutoff = utcnow - sweep'.days
       /\ \A i \in SweepIds :
            LET expired ==
                  /\ tasks[i] # NoRow
                  /\ tasks[i].status \in {"success", "failed"}
                  /\ tasks[i].completed_at # NoTime
                  /\ tasks[i].completed_at < sweep'.cutoff
            IN tasks'[i] = IF expired THEN NoRow ELSE tasks[i]]_vars

\* C23 witness: a run of the sweep has removed one record and left the
\* other, a terminal record inside the window
C23_SweptOneKeptOne ==
  /\ sweep.runs >= 1 /\ sweep.deleted_count = 1
  /\ \E i \in SweepIds :
       /\ tasks[i] # NoRow
       /\ tasks[i].status \in {"success", "failed"}
       /\ tasks[i].completed_at >= sweep.cutoff

\* the number of requests admitted at a time in the window that ends at t
AdmittedInWindow(t) ==
  Cardinality({i \in DOMAIN admitted :
                 admitted[i] > t - LOGIN_WINDOW /\ admitted[i] <= t})

\* C24: of one client's requests to /auth/login, no more than 5 are admitted
\* inside any window of 300 seconds, and a request that follows 5 admitted
\* ones inside the window is answered 429
C24_AtMostFiveAdmittedPerWindow ==
  \A i \in DOMAIN admitted : AdmittedInWindow(admitted[i]) <= LOGIN_LIMIT

\* the same with the in-memory storage only
MemoryAdmitsAtMostFive ==
  storage = "memory" => C24_AtMostFiveAdmittedPerWindow

\* C25: when the handler publishes the complete event after the endpoint's
\* last fragment, the text it carries is already stored as the note's
\* summary, so that whoever receives the event finds the text saved
C25_PersistedBeforeComplete ==
  [][\A i \in DOMAIN published' :
       (i > Len(published) /\ IsComplete(published'[i])
        /\ adapter = "open") =>
          note.ai_summary = published'[i].message.data]_vars

\* the second half of that order: the record is success only when the text
\* is stored and the complete event published
SuccessOnlyAfterSaveAndComplete ==
  (kind = "summarize_stream" /\ row # NoRow /\ row.status = "success") =>
    /\ note.ai_summary # NULL
    /\ \E i \in DOMAIN published : IsComplete(published[i])

\* C26: whenever the record of an enhance task has status success, a run of
\* the handler has committed the enhanced content and returned normally
C26_SuccessMeansEnhanced ==
  (kind = "enhance" /\ row # NoRow /\ row.status = "success") =>
    /\ note.ai_enhanced_content # NULL
    /\ backend.state = "SUCCESS"

\* the status messages published on the task's channel, in publish order
RECURSIVE StatusLog(_)
StatusLog(log) ==
  IF log = <<>> THEN <<>>
  ELSE LET e == log[Len(log)]
           rest == StatusLog(SubSeq(log, 1, Len(log) - 1))
       IN IF e.channel = TaskId THEN Append(rest, e.message) ELSE rest

\* s is the end of t
IsSuffix(s, t) ==
  /\ Len(s) <= Len(t)
  /\ \A i \in DOMAIN s : s[i] = t[Len(t) - Len(s) + i]

\* what the status client was relayed after its snapshot
StatusRelayed == IF tsent = <<>> THEN <<>> ELSE Tail(tsent)

\* C27: the status client is subscribed before its snapshot is read, so a
\* status message published at any time from then on, before or after the
\* snapshot, is queued for the client and relayed in publish order: nothing
\* published after the snapshot was read is missed
C27_NothingMissedAfterSnapshot ==
  [][/\ (tpc # "none" /\ StatusLog(published') # StatusLog(published)) =>
          /\ tinbox' = Append(tinbox, LastFrame(StatusLog(published')))
          /\ tsent' = tsent
     /\ tpc' # "none" =>
          IsSuffix(StatusRelayed' \o tinbox', StatusLog(published'))]_vars

\* C27 witness: the snapshot showed the task unfinished, and the completion,
\* published after the snapshot was read and before the client relayed
\* anything, is queued for the client
C27_CompletionQueuedAfterSnapshot ==
  /\ tpc = "relay" /\ Len(tsent) = 1
  /\ tsent[1].state \notin {"SUCCESS", "FAILURE"}
  /\ tinbox # <<>>
  /\ LastFrame(tinbox).state = "SUCCESS"

\* the number of messages in log that report the state st
StateCount(log, st) == Len(SelectSeq(log, LAMBDA m : m.state = st))

\* C28: the executions of the task that have finished have each caused one
\* status message on the task's channel, no more, and the status client is
\* not relayed the same completion twice
C28_OneStatusMessagePerExecution ==
  /\ Len(StatusLog(published)) <= executions
  /\ StateCount(StatusRelayed, "SUCCESS") <= 1

\* the user who dispatched the task, once it is dispatched
TaskOwner == IF dpc \in {"queued", "done", "failed"} THEN dcaller ELSE NULL

\* C29: a client of either WebSocket gateway that authenticated as a user
\* who does not own the task is sent nothing of it: no chunk, no complete
\* event, no status snapshot or message
C29_OnlyOwnerReceives ==
  [][/\ (TaskOwner # NULL /\ suser' \notin {NULL, TaskOwner}) =>
          ssent' = ssent
     /\ (TaskOwner # NULL /\ tuser' \notin {NULL, TaskOwner}) =>
          tsent' = tsent]_vars

\* C30: the delay of each retry after the first is at least twice the delay
\* of the retry before it, and no delay exceeds the cap of 600 seconds
C30_RetryDelayGrows ==
  [][Len(queue') > Len(queue) =>
       LET msg == LastFrame(queue')
       IN /\ msg.countdown <= RETRY_BACKOFF_MAX
          /\ msg.retries >= 1 => msg.countdown > 0
          /\ msg.retries >= 2 => msg.countdown >= 2 * request.countdown]_vars

\* the part that does hold: no retry is delayed by more than the cap
RetryDelayWithinCap ==
  \A i \in DOMAIN queue : queue[i].countdown <= RETRY_BACKOFF_MAX

====
